---- MODULE Spec2Model ----
(***************************************************************************)
(* Feedback pipeline of the repository: the prompt builder, the hosted     *)
(* model call, the strict JSON interpreter (Task_2/llm.py), the section    *)
(* interpreter (app.py) and the admin dashboard's API/local-file fallback  *)
(* (Task_2/pages/2_admin_dashboard.py).                                    *)
(*                                                                         *)
(* A text is a sequence of atoms.  An atom is one character ("{", "}",     *)
(* "[", "]", ":", ",", the double quote, " ", "\n", a digit) or a run of   *)
(* characters that holds no brace, bracket, quote or newline and neither   *)
(* starts nor ends with whitespace ("summary", "do X", "null", a line of   *)
(* the prompt template, a message).  The backslash is not in the alphabet. *)
(***************************************************************************)
EXTENDS Integers, Sequences, FiniteSets, TLC

VARIABLES
    pc,            \* position inside generate_feedback
    HF_API_TOKEN,  \* llm.py:10, TRUE when a credential is configured
    request,       \* the (rating, review) handed to generate_feedback
    prompt,        \* llm.py:113
    requests,      \* number of requests.post calls made by call_llm
    completion,    \* what the hosted model wrote: prefix, object, suffix
    resp,          \* llm.py:32, the HTTP response
    raw_output,    \* llm.py:114
    json_str,      \* llm.py:95
    data,          \* llm.py:115
    result,        \* llm.py:124
    err,           \* the exception that left generate_feedback
    sec_pc,        \* position inside analyze_feedback
    df,            \* app.py:69, the reviews handed to analyze_feedback
    analysis,      \* app.py:86
    report,        \* app.py:93, the (summary, actions) pair
    loaded,        \* 2_admin_dashboard.py:68, st.session_state["loaded"]
    local_file,    \* user_reviews.csv
    run            \* the last rerun of the admin script: the button pressed,
                   \* how the service answered, what was done to the file

genVars == <<pc, HF_API_TOKEN, request, prompt, requests, completion, resp,
             raw_output, json_str, data, result, err>>
secVars == <<sec_pc, df, analysis, report>>
admVars == <<loaded, local_file, run>>
vars == <<genVars, secVars, admVars>>

----------------------------------------------------------------------------
(* Bounds of the model *)

MaxProse == 1
MaxJunk == 3
MaxReview == 2
MaxRating == 11
MaxAnalysis == 5
MaxRows == 2
MaxServed == 1

----------------------------------------------------------------------------
(* Texts *)

QUOTE == "\""
NL == "\n"
Whitespace == {" ", NL}

DigitChars == <<"0", "1", "2", "3", "4", "5", "6", "7", "8", "9">>

Texts(alphabet, n) == UNION {[1..k -> alphabet] : k \in 0..n}

\* str.find: 0-based index of the first occurrence of atom c, -1 when absent
Find(s, c) ==
    IF \E i \in 1..Len(s) : s[i] = c
    THEN (CHOOSE i \in 1..Len(s) : s[i] = c /\ \A j \in 1..(i-1) : s[j] # c) - 1
    ELSE -1

\* rfind taken for find: the first occurrence instead of the last
RFindFirst(s, c) == Find(s, c)

\* str.rfind: 0-based index of the last occurrence of atom c, -1 when absent
RFind(s, c) ==
    IF \E i \in 1..Len(s) : s[i] = c
    THEN (CHOOSE i \in 1..Len(s) : s[i] = c /\ \A j \in (i+1)..Len(s) : s[j] # c) - 1
    ELSE -1

\* Python slice s[a:b] for 0 <= a, 0 <= b
Slice(s, a, b) == SubSeq(s, a + 1, IF b > Len(s) THEN Len(s) ELSE b)

RECURSIVE LStrip(_)
LStrip(s) == IF s # <<>> /\ Head(s) \in Whitespace THEN LStrip(Tail(s)) ELSE s

RECURSIVE RStrip(_)
RStrip(s) ==
    IF s # <<>> /\ s[Len(s)] \in Whitespace THEN RStrip(SubSeq(s, 1, Len(s) - 1)) ELSE s

\* str.strip()
Strip(s) == RStrip(LStrip(s))

\* str(n) of an int n >= 0: its decimal digits
RECURSIVE IntText(_)
IntText(n) ==
    IF n < 10 THEN <<DigitChars[n + 1]>>
    ELSE IntText(n \div 10) \o <<DigitChars[(n % 10) + 1]>>

----------------------------------------------------------------------------
(* Python values as json.loads and resp.json() build them.  Every value has *)
(* the same four fields: t the type, s the text of a str / the digits of an *)
(* int / the literal of a bool, keys and items the content of a dict (keys  *)
(* in insertion order) or the items of a list.                              *)

VStr(s) == [t |-> "str", s |-> s, keys |-> <<>>, items |-> <<>>]
VInt(d) == [t |-> "int", s |-> d, keys |-> <<>>, items |-> <<>>]
VNone == [t |-> "NoneType", s |-> <<>>, keys |-> <<>>, items |-> <<>>]
VBool(lit) == [t |-> "bool", s |-> <<lit>>, keys |-> <<>>, items |-> <<>>]
VList(xs) == [t |-> "list", s |-> <<>>, keys |-> <<>>, items |-> xs]
VDict(ks, xs) == [t |-> "dict", s |-> <<>>, keys |-> ks, items |-> xs]

HasKey(d, k) == \E i \in 1..Len(d.keys) : d.keys[i] = k
KeyIndex(d, k) == CHOOSE i \in 1..Len(d.keys) : d.keys[i] = k

\* dict.get(k, default)
DictGet(d, k, default) == IF HasKey(d, k) THEN d.items[KeyIndex(d, k)] ELSE default

\* d[k] = v: a repeated key keeps its place and takes the later value
DictSet(d, k, v) ==
    IF HasKey(d, k)
    THEN VDict(d.keys, [d.items EXCEPT ![KeyIndex(d, k)] = v])
    ELSE VDict(Append(d.keys, k), Append(d.items, v))

RECURSIVE PyRepr(_)
RECURSIVE PyReprItems(_, _)
RECURSIVE PyReprPairs(_, _, _)

\* repr(v)
PyRepr(v) ==
    CASE v.t = "str" ->
            IF (\E i \in 1..Len(v.s) : v.s[i] = "'") /\ ~(\E i \in 1..Len(v.s) : v.s[i] = QUOTE)
            THEN <<QUOTE>> \o v.s \o <<QUOTE>>
            ELSE <<"'">> \o v.s \o <<"'">>
      [] v.t = "int" -> v.s
      [] v.t = "NoneType" -> <<"None">>
      [] v.t = "bool" -> IF v.s = <<"true">> THEN <<"True">> ELSE <<"False">>
      [] v.t = "list" -> <<"[">> \o PyReprItems(v.items, 1) \o <<"]">>
      [] v.t = "dict" -> <<"{">> \o PyReprPairs(v.keys, v.items, 1) \o <<"}">>

PyReprItems(xs, i) ==
    IF i > Len(xs) THEN <<>>
    ELSE (IF i > 1 THEN <<",", " ">> ELSE <<>>) \o PyRepr(xs[i]) \o PyReprItems(xs, i + 1)

PyReprPairs(ks, xs, i) ==
    IF i > Len(ks) THEN <<>>
    ELSE (IF i > 1 THEN <<",", " ">> ELSE <<>>)
         \o <<"'">> \o ks[i] \o <<"'", ":", " ">> \o PyRepr(xs[i])
         \o PyReprPairs(ks, xs, i + 1)

\* str(v)
PyStr(v) == IF v.t = "str" THEN v.s ELSE PyRepr(v)

----------------------------------------------------------------------------
(* json.loads on a text *)

JsonWs == {" ", NL}
Digits == {DigitChars[i] : i \in 1..10}

Fail(diag, i) == [ok |-> FALSE, val |-> VNone, pos |-> i, diag |-> diag]
Ok(v, i) == [ok |-> TRUE, val |-> v, pos |-> i, diag |-> ""]

At(s, i) == IF i >= 1 /\ i <= Len(s) THEN s[i] ELSE "EOF"

RECURSIVE SkipWs(_, _)
SkipWs(s, i) == IF At(s, i) \in JsonWs THEN SkipWs(s, i + 1) ELSE i

RECURSIVE DigitRunEnd(_, _)
DigitRunEnd(s, i) == IF At(s, i) \in Digits THEN DigitRunEnd(s, i + 1) ELSE i

\* scanstring: s[i] is the opening quote
ParseString(s, i) ==
    LET stops == {j \in (i+1)..Len(s) : s[j] \in {QUOTE, NL}}
    IN  IF stops = {} THEN Fail("Unterminated string starting at", i)
        ELSE LET j == CHOOSE j \in stops : \A k \in stops : j <= k
             IN  IF s[j] = NL THEN Fail("Invalid control character at", j)
                 ELSE Ok(VStr(SubSeq(s, i + 1, j - 1)), j + 1)

RECURSIVE ParseValue(_, _)
RECURSIVE ParseMembers(_, _, _)
RECURSIVE ParseElements(_, _, _)

\* JSONObject: i is the place after "{"
ParseObject(s, i) ==
    LET j == SkipWs(s, i)
    IN  IF At(s, j) = "}" THEN Ok(VDict(<<>>, <<>>), j + 1)
        ELSE IF At(s, j) # QUOTE
        THEN Fail("Expecting property name enclosed in double quotes", j)
        ELSE ParseMembers(s, j, VDict(<<>>, <<>>))

\* one "key": value pair starting at the key's quote, then the rest
ParseMembers(s, i, acc) ==
    LET key == ParseString(s, i)
    IN  IF ~key.ok THEN key
        ELSE LET c == SkipWs(s, key.pos)
             IN  IF At(s, c) # ":" THEN Fail("Expecting ':' delimiter", c)
                 ELSE LET val == ParseValue(s, SkipWs(s, c + 1))
                      IN  IF ~val.ok THEN val
                          ELSE LET n == SkipWs(s, val.pos)
                                   d == DictSet(acc, key.val.s, val.val)
                               IN  IF At(s, n) = "}" THEN Ok(d, n + 1)
                                   ELSE IF At(s, n) # "," THEN Fail("Expecting ',' delimiter", n)
                                   ELSE LET p == SkipWs(s, n + 1)
                                        IN  IF At(s, p) # QUOTE
                                            THEN Fail("Expecting property name enclosed in double quotes", p)
                                            ELSE ParseMembers(s, p, d)

\* JSONArray: i is the place after "["
ParseArray(s, i) ==
    LET j == SkipWs(s, i)
    IN  IF At(s, j) = "]" THEN Ok(VList(<<>>), j + 1)
        ELSE ParseElements(s, j, <<>>)

ParseElements(s, i, acc) ==
    LET val == ParseValue(s, i)
    IN  IF ~val.ok THEN val
        ELSE LET n == SkipWs(s, val.pos)
                 xs == Append(acc, val.val)
             IN  IF At(s, n) = "]" THEN Ok(VList(xs), n + 1)
                 ELSE IF At(s, n) # "," THEN Fail("Expecting ',' delimiter", n)
                 ELSE ParseElements(s, SkipWs(s, n + 1), xs)

\* scan_once
ParseValue(s, i) ==
    LET c == At(s, i)
    IN  CASE c = QUOTE -> ParseString(s, i)
          [] c = "{" -> ParseObject(s, i + 1)
          [] c = "[" -> ParseArray(s, i + 1)
          [] c = "null" -> Ok(VNone, i + 1)
          [] c \in {"true", "false"} -> Ok(VBool(c), i + 1)
          [] c = "0" -> Ok(VInt(<<"0">>), i + 1)
          [] c \in Digits \ {"0"} ->
                Ok(VInt(SubSeq(s, i, DigitRunEnd(s, i) - 1)), DigitRunEnd(s, i))
          [] OTHER -> Fail("Expecting value", i)

\* json.loads(s): one value, then nothing but whitespace
JsonLoads(s) ==
    LET r == ParseValue(s, SkipWs(s, 1))
    IN  IF ~r.ok THEN r
        ELSE IF SkipWs(s, r.pos) <= Len(s) THEN Fail("Extra data", SkipWs(s, r.pos))
        ELSE r

----------------------------------------------------------------------------
(* build_prompt, llm.py:48-82.  A template line holding no brace and no     *)
(* quote is one atom.                                                       *)

TemplateHead ==
    << NL,
       "You are an AI assistant helping a business understand customer feedback.", NL,
       NL,
       "You will receive:", NL,
       "- A star rating (1 to 5)", NL,
       "- A short free-text review", NL,
       NL,
       "Your tasks:", NL,
       "1. Write a short, warm, user-facing reply directly to the customer.", NL,
       "2. Summarise the essence of the review in <= 20 words.", NL,
       "3. Suggest 2-3 concrete next actions for the business.", NL,
       NL,
       "Return ONLY a valid JSON object with these exact keys:", NL,
       "-", " ", QUOTE, "user_response", QUOTE, ":", " ", "string", NL,
       "-", " ", QUOTE, "summary", QUOTE, ":", " ", "string", NL,
       "-", " ", QUOTE, "actions", QUOTE, ":", " ", "array of strings", NL,
       NL,
       "Example of the required format:", NL >>

TemplateExample ==
    << "{", NL,
       " ", " ", QUOTE, "user_response", QUOTE, ":", " ",
           QUOTE, "Thank you for your feedback...", QUOTE, ",", NL,
       " ", " ", QUOTE, "summary", QUOTE, ":", " ",
           QUOTE, "Customer loved the food but found service slow.", QUOTE, ",", NL,
       " ", " ", QUOTE, "actions", QUOTE, ":", " ", "[", NL,
       " ", " ", " ", " ", QUOTE, "Train staff to reduce wait time", QUOTE, ",", NL,
       " ", " ", " ", " ", QUOTE, "Monitor peak hours and add staff", QUOTE, NL,
       " ", " ", "]", NL,
       "}", NL >>

TemplateCue == <<NL, "Now generate the JSON.", NL, NL>>

\* the review embedded after str.strip()
build_prompt_stripped(rating, review) ==
    Strip(TemplateHead \o TemplateExample \o TemplateCue
          \o <<"Rating:", " ">> \o IntText(rating) \o <<NL>>
          \o <<"Review:", " ", QUOTE, QUOTE, QUOTE>> \o Strip(review)
          \o <<QUOTE, QUOTE, QUOTE, " ", NL>>
          \o <<NL, "JSON:", NL>>)

build_prompt(rating, review) ==
    Strip(TemplateHead \o TemplateExample \o TemplateCue
          \o <<"Rating:", " ">> \o IntText(rating) \o <<NL>>
          \o <<"Review:", " ", QUOTE, QUOTE, QUOTE>> \o review \o <<QUOTE, QUOTE, QUOTE, " ", NL>>
          \o <<NL, "JSON:", NL>>)

----------------------------------------------------------------------------
(* What the hosted model and the inference service may answer *)

K_user_response == <<"user_response">>
K_summary == <<"summary">>
K_actions == <<"actions">>
K_generated_text == <<"generated_text">>

RECURSIVE RenderItems(_, _)
RECURSIVE RenderPairs(_, _, _)
RECURSIVE Render(_)

\* the JSON text of a value, in the format the prompt's example asks for
Render(v) ==
    CASE v.t = "str" -> <<QUOTE>> \o v.s \o <<QUOTE>>
      [] v.t = "int" -> v.s
      [] v.t = "NoneType" -> <<"null">>
      [] v.t = "bool" -> v.s
      [] v.t = "list" -> <<"[">> \o RenderItems(v.items, 1) \o <<"]">>
      [] v.t = "dict" -> <<"{">> \o RenderPairs(v.keys, v.items, 1) \o <<"}">>

RenderItems(xs, i) ==
    IF i > Len(xs) THEN <<>>
    ELSE (IF i > 1 THEN <<",", " ">> ELSE <<>>) \o Render(xs[i]) \o RenderItems(xs, i + 1)

RenderPairs(ks, xs, i) ==
    IF i > Len(ks) THEN <<>>
    ELSE (IF i > 1 THEN <<",", " ">> ELSE <<>>)
         \o <<QUOTE>> \o ks[i] \o <<QUOTE, ":", " ">> \o Render(xs[i])
         \o RenderPairs(ks, xs, i + 1)

\* zero or one value: a key that may be absent
Opt(S) == {<<>>} \cup {<<v>> : v \in S}

MakeObject(u, s, a) ==
    VDict((IF u # <<>> THEN <<K_user_response>> ELSE <<>>)
          \o (IF s # <<>> THEN <<K_summary>> ELSE <<>>)
          \o (IF a # <<>> THEN <<K_actions>> ELSE <<>>),
          u \o s \o a)

NestedObject == VDict(<<<<"k">>>>, <<VInt(<<"1">>)>>)

UserResponseValues == {VStr(<<"Thank you", " ", "}">>), VInt(<<"5">>)}
SummaryValues == {VStr(<<"ok">>)}
ActionValues ==
    { VStr(<<"retrain staff">>), VInt(<<"1">>), VNone, VBool("true"), NestedObject,
      VList(<<>>), VList(<<VStr(<<"do X">>), VStr(<<"do Y">>)>>), VList(<<VInt(<<"1">>)>>) }

\* the JSON objects the model may write
Objects ==
    {MakeObject(u, s, a) :
        u \in Opt(UserResponseValues), s \in Opt(SummaryValues), a \in Opt(ActionValues)}
    \cup {NestedObject}

ProseAlphabet == {"{", "}", "x"}
Prose == Texts(ProseAlphabet, MaxProse)
Junk == Texts(ProseAlphabet, MaxJunk)

\* a completion: a JSON object inside prose, or a text that is no object
Completions ==
    [wrapped : {TRUE}, prefix : Prose, obj : Objects, suffix : Prose]
    \cup [wrapped : {FALSE}, prefix : Junk, obj : {VNone}, suffix : {<<>>}]

CompletionText(c) ==
    IF c.wrapped THEN c.prefix \o Render(c.obj) \o c.suffix ELSE c.prefix

NoCompletion == [wrapped |-> FALSE, prefix |-> <<>>, obj |-> VNone, suffix |-> <<>>]

Generated(v) == VDict(<<K_generated_text>>, <<v>>)

\* the two shapes the inference API documents: list[dict] and dict (llm.py:38)
Shaped(shape, text) ==
    IF shape = "list" THEN VList(<<Generated(VStr(text))>>) ELSE Generated(VStr(text))

\* success bodies of other shapes
OddBodies ==
    { VList(<<>>), VList(<<VInt(<<"1">>)>>), VList(<<VNone>>),
      VList(<<VStr(<<"generated_text">>)>>), VList(<<VStr(<<"x">>)>>),
      VList(<<VList(<<VStr(<<"generated_text">>)>>)>>),
      VList(<<NestedObject>>), NestedObject, VInt(<<"1">>), VStr(<<"x">>), VNone,
      Generated(VInt(<<"1">>)),
      VList(<<Generated(VStr(<<"{", "}">>)), Generated(VStr(<<"x">>))>>) }

ErrorStatuses == {401, 503}
ErrorTexts ==
    { <<>>, <<"Service Unavailable">>,
      <<"{", QUOTE, "error", QUOTE, ":", " ", QUOTE, "Model is loading", QUOTE, "}">> }

\* resp: data is what resp.json() returns when is_json; text is resp.text, kept
\* for the bodies that are no JSON (llm.py:34 is the one place it is read)
NoResp == [status_code |-> 0, is_json |-> FALSE, data |-> VNone, text |-> <<>>]
JsonResp(status, body) ==
    [status_code |-> status, is_json |-> TRUE, data |-> body, text |-> <<>>]
TextResp(status, text) ==
    [status_code |-> status, is_json |-> FALSE, data |-> VNone, text |-> text]

Requests ==
    { [rating |-> 5, review |-> <<"Great food!">>], [rating |-> 1, review |-> <<>>] }

----------------------------------------------------------------------------
(* generate_feedback, llm.py:103-128, with call_llm and parse_llm_json *)

NoErr == [cls |-> "", msg |-> <<>>]
LLMError(msg) == [cls |-> "LLMError", msg |-> msg]
Raised(cls) == [cls |-> cls, msg |-> <<>>]

NoResult == [user_response |-> VNone, summary |-> VNone, actions |-> VNone]

InitGen ==
    /\ pc = "start"
    /\ HF_API_TOKEN \in BOOLEAN
    /\ request \in Requests
    /\ prompt = <<>>
    /\ requests = 0
    /\ completion = NoCompletion
    /\ resp = NoResp
    /\ raw_output = VNone
    /\ json_str = <<>>
    /\ data = VNone
    /\ result = NoResult
    /\ err = NoErr

\* llm.py:113
BuildPrompt ==
    /\ pc = "start"
    /\ prompt' = build_prompt(request.rating, request.review)
    /\ pc' = "call_llm"
    /\ UNCHANGED <<secVars, admVars, HF_API_TOKEN, request, requests, completion, resp, raw_output,
                   json_str, data, result, err>>

\* the credential is never checked
TokenNeverMissing == FALSE

\* llm.py:22
TokenMissing == ~HF_API_TOKEN

\* llm.py:22-23
CheckToken ==
    /\ pc = "call_llm"
    /\ IF TokenMissing
       THEN /\ pc' = "raised"
            /\ err' = LLMError(<<"HF_API_TOKEN is not set in environment variables.">>)
       ELSE /\ pc' = "post"
            /\ err' = err
    /\ UNCHANGED <<secVars, admVars, HF_API_TOKEN, request, prompt, requests, completion, resp, raw_output,
                   json_str, data, result>>

\* llm.py:32, the service answers 200 with a completion in one of its two shapes
PostCompletion ==
    /\ pc = "post"
    /\ \E c \in Completions, shape \in {"list", "dict"} :
          /\ completion' = c
          /\ resp' = JsonResp(200, Shaped(shape, CompletionText(c)))
    /\ requests' = requests + 1
    /\ pc' = "response"
    /\ UNCHANGED <<secVars, admVars, HF_API_TOKEN, request, prompt, raw_output, json_str, data, result, err>>

\* llm.py:32, the service answers 200 with another body
PostOther ==
    /\ pc = "post"
    /\ \/ \E b \in OddBodies : resp' = JsonResp(200, b)
       \/ resp' = TextResp(200, <<"<html>">>)
    /\ requests' = requests + 1
    /\ pc' = "response"
    /\ UNCHANGED <<secVars, admVars, HF_API_TOKEN, request, prompt, completion, raw_output, json_str, data,
                   result, err>>

\* llm.py:32, the service answers with an error status
PostError ==
    /\ pc = "post"
    /\ \E st \in ErrorStatuses, t \in ErrorTexts : resp' = TextResp(st, t)
    /\ requests' = requests + 1
    /\ pc' = "response"
    /\ UNCHANGED <<secVars, admVars, HF_API_TOKEN, request, prompt, completion, raw_output, json_str, data,
                   result, err>>

\* llm.py:32, requests.post raises (no connection, timeout)
PostFails ==
    /\ pc = "post"
    /\ requests' = requests + 1
    /\ pc' = "raised"
    /\ err' \in {Raised("ConnectionError"), Raised("Timeout")}
    /\ UNCHANGED <<secVars, admVars, HF_API_TOKEN, request, prompt, completion, resp, raw_output, json_str,
                   data, result>>

\* "generated_text" in x (llm.py:39): a key of a dict, a substring of a str, an
\* item of a list; any other type raises TypeError
Contains(x) ==
    CASE x.t = "dict" -> IF HasKey(x, K_generated_text) THEN "yes" ELSE "no"
      [] x.t = "str" -> IF \E i \in 1..Len(x.s) : x.s[i] = "generated_text" THEN "yes" ELSE "no"
      [] x.t = "list" ->
            IF \E i \in 1..Len(x.items) : x.items[i] = VStr(K_generated_text)
            THEN "yes" ELSE "no"
      [] OTHER -> "TypeError"

\* llm.py:39-45: [ok, the value returned] or the exception raised
ExtractText(body) ==
    IF body.t = "list" /\ Len(body.items) > 0 /\ Contains(body.items[1]) # "no"
    THEN IF Contains(body.items[1]) = "yes" /\ body.items[1].t = "dict"
         THEN [ok |-> TRUE, val |-> DictGet(body.items[1], K_generated_text, VNone)]
         ELSE [ok |-> FALSE, val |-> VNone]
    ELSE IF body.t = "dict" /\ HasKey(body, K_generated_text)
    THEN [ok |-> TRUE, val |-> DictGet(body, K_generated_text, VNone)]
    ELSE [ok |-> TRUE, val |-> VStr(PyStr(body))]

\* llm.py:33-45
ReadResponse ==
    /\ pc = "response"
    /\ IF resp.status_code # 200
       THEN /\ pc' = "raised"
            /\ err' = LLMError(<<"HF API error: ">> \o IntText(resp.status_code)
                               \o <<" - ">> \o resp.text)
            /\ raw_output' = raw_output
       ELSE IF ~resp.is_json
       THEN /\ pc' = "raised"
            /\ err' = Raised("JSONDecodeError")
            /\ raw_output' = raw_output
       ELSE IF ~ExtractText(resp.data).ok
       THEN /\ pc' = "raised"
            /\ err' = Raised("TypeError")
            /\ raw_output' = raw_output
       ELSE /\ pc' = "parse"
            /\ err' = err
            /\ raw_output' = ExtractText(resp.data).val
    /\ UNCHANGED <<secVars, admVars, HF_API_TOKEN, request, prompt, requests, completion, resp, json_str,
                   data, result>>

\* the guard without its order test
NoSpanUnordered(start, end) == start = -1 \/ end = -1

\* llm.py:92
NoSpan(start, end) == start = -1 \/ end = -1 \/ end <= start

NoJsonMessage == <<"No JSON object found in LLM output.">>

\* a parse failure reported with the message of the missing span
MalformedAsNoJson(diag) == NoJsonMessage

\* llm.py:99
MalformedMessage(diag) == <<"Failed to parse JSON: ", diag>>

\* parse_llm_json, llm.py:85-100
ParseLlmJson ==
    /\ pc = "parse"
    /\ IF raw_output.t # "str"
       THEN /\ pc' = "raised"
            /\ err' = Raised("AttributeError")
            /\ UNCHANGED <<json_str, data>>
       ELSE LET start == Find(raw_output.s, "{")
                end == RFind(raw_output.s, "}")
                span == Slice(raw_output.s, start, end + 1)
            IN  IF NoSpan(start, end)
                THEN /\ pc' = "raised"
                     /\ err' = LLMError(NoJsonMessage)
                     /\ UNCHANGED <<json_str, data>>
                ELSE /\ json_str' = span
                     /\ IF JsonLoads(span).ok
                        THEN /\ pc' = "normalize"
                             /\ data' = JsonLoads(span).val
                             /\ err' = err
                        ELSE /\ pc' = "raised"
                             /\ err' = LLMError(MalformedMessage(JsonLoads(span).diag))
                             /\ data' = data
    /\ UNCHANGED <<secVars, admVars, HF_API_TOKEN, request, prompt, requests, completion, resp, raw_output,
                   result>>

DEFAULT_USER_RESPONSE == VStr(<<"Thank you for your feedback!">>)
DEFAULT_SUMMARY == VStr(<<"Customer left feedback.">>)

\* the actions taken as they are, without the list test
NormalizeActionsAsIs(d) == DictGet(d, K_actions, VList(<<>>))

\* llm.py:120-122
NormalizeActions(d) ==
    LET actions == DictGet(d, K_actions, VList(<<>>))
    IN  IF actions.t # "list" THEN VList(<<VStr(PyStr(actions))>>) ELSE actions

\* llm.py:117-128
Normalized(d) ==
    [ user_response |-> DictGet(d, K_user_response, DEFAULT_USER_RESPONSE),
      summary |-> DictGet(d, K_summary, DEFAULT_SUMMARY),
      actions |-> NormalizeActions(d) ]

Normalize ==
    /\ pc = "normalize"
    /\ result' = Normalized(data)
    /\ pc' = "done"
    /\ UNCHANGED <<secVars, admVars, HF_API_TOKEN, request, prompt, requests, completion, resp, raw_output,
                   json_str, data, err>>

IdleGen ==
    /\ pc = "idle"
    /\ HF_API_TOKEN = FALSE
    /\ request = [rating |-> 0, review |-> <<>>]
    /\ prompt = <<>>
    /\ requests = 0
    /\ completion = NoCompletion
    /\ resp = NoResp
    /\ raw_output = VNone
    /\ json_str = <<>>
    /\ data = VNone
    /\ result = NoResult
    /\ err = NoErr

IdleSec == sec_pc = "idle" /\ df = <<>> /\ analysis = <<>> /\ report = <<>>
NoFile == [exists |-> FALSE, rows |-> <<>>]
NoRun ==
    [ button |-> "none", list |-> "none", list_local |-> FALSE, op |-> "none",
      op_read |-> FALSE, op_wrote |-> FALSE, records |-> <<>> ]

IdleAdm == loaded = FALSE /\ local_file = NoFile /\ run = NoRun

Init == InitGen /\ IdleSec /\ IdleAdm

Next ==
    \/ BuildPrompt
    \/ CheckToken
    \/ PostCompletion
    \/ PostOther
    \/ PostError
    \/ PostFails
    \/ ReadResponse
    \/ ParseLlmJson
    \/ Normalize

Spec == Init /\ [][Next]_vars

----------------------------------------------------------------------------
(* Properties of generate_feedback, checked under Spec *)

Min(S) == CHOOSE x \in S : \A y \in S : x <= y
Max(S) == CHOOSE x \in S : \A y \in S : x >= y
Opens(s) == {i \in 1..Len(s) : s[i] = "{"}
Closes(s) == {i \in 1..Len(s) : s[i] = "}"}

\* parse_llm_json has run on a text
ParseRan == raw_output.t = "str" /\ pc \in {"normalize", "done", "raised"}

\* no candidate span: no "{", no "}", or the last "}" before the first "{"
NoCandidate(s) ==
    \/ Opens(s) = {}
    \/ Closes(s) = {}
    \/ Max(Closes(s)) < Min(Opens(s))

IsText(v) == v.t = "str"
IsTextList(v) == v.t = "list" /\ \A i \in 1..Len(v.items) : IsText(v.items[i])

\* C1: whenever generate_feedback returns, user_response is a text, summary is
\* a text and actions is a sequence of texts, whatever types the model wrote.
C1_ResultIsTyped ==
    pc = "done" =>
        /\ IsText(result.user_response)
        /\ IsText(result.summary)
        /\ IsTextList(result.actions)

\* the object the model wrote has the three keys, actions being a list
FullObject(o) ==
    /\ HasKey(o, K_user_response)
    /\ HasKey(o, K_summary)
    /\ HasKey(o, K_actions)
    /\ DictGet(o, K_actions, VNone).t = "list"

\* parse_llm_json and the normalization have run (to a result or to a
\* failure) on the text of a full object wrapped in prose
WrappedParsed ==
    /\ completion.wrapped
    /\ FullObject(completion.obj)
    /\ pc \in {"done", "raised"}
    /\ raw_output = VStr(CompletionText(completion))

ValuesRecovered ==
    /\ pc = "done"
    /\ result.user_response = DictGet(completion.obj, K_user_response, VNone)
    /\ result.summary = DictGet(completion.obj, K_summary, VNone)
    /\ result.actions = DictGet(completion.obj, K_actions, VNone)

\* C2 as stated: a full object inside any prose, prose with braces included,
\* is recovered with its three values unchanged.
C2_RecoveredInAnyProse == WrappedParsed => ValuesRecovered

CleanProse ==
    /\ \A i \in 1..Len(completion.prefix) : completion.prefix[i] # "{"
    /\ \A i \in 1..Len(completion.suffix) : completion.suffix[i] # "}"

\* C2 amended: a full object is recovered with its three values unchanged when
\* the prose before it holds no "{" and the prose after it holds no "}".
C2_RecoveredInCleanProse == (WrappedParsed /\ CleanProse) => ValuesRecovered

C2_Witness ==
    /\ WrappedParsed
    /\ CleanProse
    /\ completion.prefix # <<>>
    /\ completion.suffix # <<>>
    /\ ValuesRecovered

\* C3: parse_llm_json raises the no-JSON error exactly when the text has no
\* "{", no "}", or its last "}" before its first "{"; otherwise the span from
\* the first "{" through the last "}" is what the JSON parser is given.
C3_NoJsonExactly ==
    ParseRan =>
        LET s == raw_output.s
        IN  /\ (pc = "raised" /\ err = LLMError(<<"No JSON object found in LLM output.">>))
                <=> NoCandidate(s)
            /\ ~NoCandidate(s) => json_str = SubSeq(s, Min(Opens(s)), Max(Closes(s)))

C3_Witness ==
    /\ ParseRan
    /\ pc = "raised"
    /\ err = LLMError(<<"No JSON object found in LLM output.">>)
    /\ Opens(raw_output.s) # {}
    /\ Closes(raw_output.s) # {}

\* C4: the four failures leave generate_feedback as signals that differ: the
\* opening of the message tells the missing credential, the service error
\* (with status and body), the missing span and the parse failure (with the
\* parser's diagnostic) apart.
C4_FailuresDistinct ==
    (pc = "raised" /\ err.cls = "LLMError") =>
        LET h == Head(err.msg)
        IN  /\ h = "HF_API_TOKEN is not set in environment variables." <=> ~HF_API_TOKEN
            /\ h = "HF API error: " <=> (HF_API_TOKEN /\ resp.status_code # 200)
            /\ h = "HF API error: " =>
                  err.msg = <<h>> \o IntText(resp.status_code) \o <<" - ">> \o resp.text
            /\ h = "No JSON object found in LLM output."
                  <=> (raw_output.t = "str" /\ NoCandidate(raw_output.s))
            /\ h = "Failed to parse JSON: "
                  <=> (raw_output.t = "str" /\ ~NoCandidate(raw_output.s))
            /\ h = "Failed to parse JSON: " =>
                  (Len(err.msg) = 2 /\ err.msg[2] = JsonLoads(json_str).diag)

C4_Witness ==
    /\ pc = "raised"
    /\ err.cls = "LLMError"
    /\ Head(err.msg) = "Failed to parse JSON: "
    /\ err.msg[2] = "Expecting property name enclosed in double quotes"

\* the textual representation of a value that is not a sequence
TextOf(v) ==
    CASE v.t = "str" -> v.s
      [] v.t = "int" -> v.s
      [] v.t = "NoneType" -> <<"None">>
      [] v.t = "bool" -> IF v.s = <<"true">> THEN <<"True">> ELSE <<"False">>
      [] OTHER -> PyRepr(v)

Present(d, k) == \E i \in 1..Len(d.keys) : d.keys[i] = k
ValueAt(d, k) == d.items[CHOOSE i \in 1..Len(d.keys) : d.keys[i] = k]

C7_AtMostOneRequest ==
    /\ requests <= 1
    /\ ~HF_API_TOKEN => requests = 0
    /\ (pc = "raised" /\ resp.status_code \notin {0, 200}) =>
          /\ requests = 1
          /\ err = LLMError(<<"HF API error: ">> \o IntText(resp.status_code)
                            \o <<" - ">> \o resp.text)
          /\ ~ENABLED Next

C7_Witness ==
    /\ pc = "raised"
    /\ resp.status_code = 503
    /\ resp.text = <<"Service Unavailable">>
    /\ requests = 1

\* what the claim expects call_llm to return for a success body
ExpectedText(body) ==
    IF body.t = "dict" /\ Present(body, <<"generated_text">>)
    THEN ValueAt(body, <<"generated_text">>)
    ELSE IF /\ body.t = "list"
            /\ Len(body.items) = 1
            /\ body.items[1].t = "dict"
            /\ Present(body.items[1], <<"generated_text">>)
    THEN ValueAt(body.items[1], <<"generated_text">>)
    ELSE VStr(PyStr(body))

\* C8: for every success body call_llm returns a text without raising: the
\* generated_text of a single object or of a one-element sequence, and the
\* string rendering of the body in every other case.
C8_SuccessBodyGivesText ==
    (resp.status_code = 200 /\ resp.is_json /\ pc \in {"parse", "normalize", "done", "raised"}) =>
        /\ err.cls \notin {"TypeError", "AttributeError"}
        /\ IsText(raw_output)
        /\ raw_output = ExpectedText(resp.data)

----------------------------------------------------------------------------
(* build_prompt on its own: every rating and review of the bounds *)

ReviewAlphabet == {"{", "}", QUOTE, " ", NL, "x"}

PromptRequests == [rating : 0..MaxRating, review : Texts(ReviewAlphabet, MaxReview)]

InitPrompt ==
    /\ pc = "start"
    /\ HF_API_TOKEN = TRUE
    /\ request \in PromptRequests
    /\ prompt = <<>>
    /\ requests = 0
    /\ completion = NoCompletion
    /\ resp = NoResp
    /\ raw_output = VNone
    /\ json_str = <<>>
    /\ data = VNone
    /\ result = NoResult
    /\ err = NoErr
    /\ IdleSec
    /\ IdleAdm

NextPrompt == BuildPrompt

SpecPrompt == InitPrompt /\ [][NextPrompt]_vars

RECURSIVE DigitsValue(_)
DigitsValue(ds) ==
    IF ds = <<>> THEN 0
    ELSE 10 * DigitsValue(SubSeq(ds, 1, Len(ds) - 1))
         + ((CHOOSE i \in 1..10 : DigitChars[i] = ds[Len(ds)]) - 1)

\* the text t stands in p at place i
Occurs(p, t, i) == i >= 1 /\ i + Len(t) - 1 <= Len(p) /\ SubSeq(p, i, i + Len(t) - 1) = t

\* C9: the prompt holds the worked example, then "Rating: " with the rating,
\* then the review verbatim between its quotes, and ends with the bare "JSON:".
C9_PromptShape ==
    pc = "call_llm" =>
        \E e \in 1..Len(prompt) :
            /\ Occurs(prompt, TemplateExample, e)
            /\ \E r \in (e + Len(TemplateExample))..Len(prompt) :
                  /\ Occurs(prompt, <<"Rating:", " ">>, r)
                  /\ \E n \in 1..3 :
                        /\ \A k \in (r + 2)..(r + 1 + n) : prompt[k] \in Digits
                        /\ prompt[r + 2 + n] = NL
                        /\ DigitsValue(SubSeq(prompt, r + 2, r + 1 + n)) = request.rating
                  /\ \E v \in (r + 1)..Len(prompt) :
                        /\ Occurs(prompt, <<QUOTE, QUOTE, QUOTE>> \o request.review
                                           \o <<QUOTE, QUOTE, QUOTE>>, v)
                        /\ Len(prompt) = v + Len(request.review) + 9
            /\ prompt[Len(prompt)] = "JSON:"

C9_Witness ==
    /\ pc = "call_llm"
    /\ request.rating = 10
    /\ request.review = <<" ", "}">>
    /\ prompt[Len(prompt)] = "JSON:"
    /\ \E v \in 1..Len(prompt) : Occurs(prompt, <<QUOTE, " ", "}", QUOTE>>, v)

----------------------------------------------------------------------------
(* analyze_feedback, app.py:69-93.  The markers are two atoms each. *)

ACTIONS_MARKER == <<"ACTIONS", ":">>
SUMMARY_MARKER == <<"SUMMARY", ":">>

\* 1-based place of the first occurrence of sep in s, 0 when there is none
FirstAt(s, sep) ==
    IF \E i \in 1..Len(s) : Occurs(s, sep, i)
    THEN CHOOSE i \in 1..Len(s) : Occurs(s, sep, i) /\ \A j \in 1..(i-1) : ~Occurs(s, sep, j)
    ELSE 0

\* str.split(sep): every occurrence, left to right, parts the text
RECURSIVE Split(_, _)
Split(s, sep) ==
    IF FirstAt(s, sep) = 0 THEN <<s>>
    ELSE <<SubSeq(s, 1, FirstAt(s, sep) - 1)>>
         \o Split(SubSeq(s, FirstAt(s, sep) + Len(sep), Len(s)), sep)

\* str.replace(old, ""): every occurrence, left to right, is taken out
RECURSIVE Remove(_, _)
Remove(s, old) ==
    IF FirstAt(s, old) = 0 THEN s
    ELSE SubSeq(s, 1, FirstAt(s, old) - 1)
         \o Remove(SubSeq(s, FirstAt(s, old) + Len(old), Len(s)), old)

AnalysisAlphabet == {"SUMMARY", "ACTIONS", ":", " ", "x"}
Analyses == Texts(AnalysisAlphabet, MaxAnalysis)

ReviewRows == {[rating |-> r, review |-> <<"x">>] : r \in {1, 5}}
Frames == UNION {[1..k -> ReviewRows] : k \in 0..MaxRows}

InitSec ==
    /\ sec_pc = "start"
    /\ df \in Frames
    /\ analysis = <<>>
    /\ report = <<>>

\* app.py:71-72
AnalyzeEmpty ==
    /\ sec_pc = "start"
    /\ df = <<>>
    /\ report' = << <<"No data to analyze.">>, <<"No actions needed.">> >>
    /\ sec_pc' = "done"
    /\ UNCHANGED <<genVars, admVars, df, analysis>>

\* app.py:86, the model returns a text
Generate ==
    /\ sec_pc = "start"
    /\ df # <<>>
    /\ analysis' \in Analyses
    /\ sec_pc' = "generated"
    /\ UNCHANGED <<genVars, admVars, df, report>>

\* app.py:86, the client raises
GenerateFails ==
    /\ sec_pc = "start"
    /\ df # <<>>
    /\ sec_pc' = "raised"
    /\ UNCHANGED <<genVars, admVars, df, analysis, report>>

\* app.py:89-93
ParseSections ==
    /\ sec_pc = "generated"
    /\ LET parts == Split(analysis, ACTIONS_MARKER)
           summary == Strip(Remove(parts[1], SUMMARY_MARKER))
           actions == IF Len(parts) > 1 THEN Strip(parts[2])
                      ELSE <<"Could not parse actions.">>
       IN  report' = <<summary, actions>>
    /\ sec_pc' = "done"
    /\ UNCHANGED <<genVars, admVars, df, analysis>>

NextSec ==
    \/ AnalyzeEmpty
    \/ Generate
    \/ GenerateFails
    \/ ParseSections

InitSections == IdleGen /\ InitSec /\ IdleAdm

SpecSections == InitSections /\ [][NextSec]_vars

\* C6: section parsing never fails; summary is the text before the first
\* ACTIONS: with every SUMMARY: removed, trimmed; actions is all the text
\* after that first marker, trimmed, further markers included; without the
\* marker actions is the fixed message and summary the whole trimmed text.
C6_SectionsSplitOnce ==
    /\ sec_pc = "raised" => analysis = <<>>
    /\ (sec_pc = "done" /\ df # <<>>) =>
          LET i == FirstAt(analysis, <<"ACTIONS", ":">>)
          IN  IF i = 0
              THEN /\ report[1] = Strip(Remove(analysis, <<"SUMMARY", ":">>))
                   /\ report[2] = <<"Could not parse actions.">>
              ELSE /\ report[1] = Strip(Remove(SubSeq(analysis, 1, i - 1), <<"SUMMARY", ":">>))
                   /\ report[2] = Strip(SubSeq(analysis, i + 2, Len(analysis)))

----------------------------------------------------------------------------
(* The admin dashboard, 2_admin_dashboard.py.  Streamlit reruns the whole    *)
(* script on every interaction: one action is one rerun, the listing of      *)
(* line 78 included.                                                         *)

Ratings == {1, 5}

\* a row of user_reviews.csv
FileRows ==
    [timestamp : {"t"}, rating : Ratings, review : {"r"}, ai_response : {"a"}]

\* a record as the script holds it: a row and its id
WithId(row, i) ==
    [ id |-> i, timestamp |-> row.timestamp, rating |-> row.rating,
      review |-> row.review, ai_response |-> row.ai_response ]

\* DataFrame(records).drop(columns=["id"]), lines 111, 126, 154
DropId(rec) ==
    [ timestamp |-> rec.timestamp, rating |-> rec.rating, review |-> rec.review,
      ai_response |-> rec.ai_response ]

DropIds(records) == [i \in 1..Len(records) |-> DropId(records[i])]

\* what GET /reviews may return
ServerRecords ==
    {WithId([timestamp |-> "t", rating |-> 5, review |-> "r", ai_response |-> "a"], i) :
        i \in 0..MaxRows}
ServerLists == UNION {[1..k -> ServerRecords] : k \in 0..MaxServed}

\* how the service takes one request: answers 2xx, answers with an error
\* status, or cannot be reached
Outcomes == {"ok", "error_status", "unreachable"}

Files ==
    {NoFile} \cup {[exists |-> TRUE, rows |-> rows] :
                     rows \in UNION {[1..k -> FileRows] : k \in 0..MaxRows}}

\* read_local, lines 41-48
read_local(file) ==
    IF ~file.exists THEN <<>>
    ELSE [i \in 1..Len(file.rows) |-> WithId(file.rows[i], i - 1)]

\* write_local, lines 51-54
write_local(rows) == [exists |-> TRUE, rows |-> rows]

\* fetch_via_api, lines 14-20: the list, or None (here: [ok |-> FALSE])
fetch_via_api(out, served) ==
    IF out = "ok" THEN [ok |-> TRUE, val |-> served] ELSE [ok |-> FALSE, val |-> <<>>]

\* line 78: fetch_via_api(api_base) or read_local()
Falls(out, served) == ~fetch_via_api(out, served).ok \/ fetch_via_api(out, served).val = <<>>

Listed(out, served) ==
    IF Falls(out, served) THEN read_local(local_file) ELSE fetch_via_api(out, served).val

Payloads == [rating : Ratings, review : {"r"}, ai_response : {"a"}]

\* lines 111-113: local_df.at[selected_id, k] = payload[k]; a label that is
\* no row of the frame adds a row
UpdatedRows(records, selected_id, payload) ==
    LET rows == DropIds(records)
    IN  IF selected_id + 1 <= Len(rows)
        THEN [rows EXCEPT ![selected_id + 1] =
                 [ timestamp |-> rows[selected_id + 1].timestamp, rating |-> payload.rating,
                   review |-> payload.review, ai_response |-> payload.ai_response ]]
        ELSE Append(rows, [ timestamp |-> "nan", rating |-> payload.rating,
                            review |-> payload.review, ai_response |-> payload.ai_response ])

\* lines 126-127: drop the row at position selected_id
DeletedRows(records, selected_id) ==
    LET rows == DropIds(records)
    IN  SubSeq(rows, 1, selected_id) \o SubSeq(rows, selected_id + 2, Len(rows))

\* lines 153-155
AddedRows(payload) ==
    Append(DropIds(read_local(local_file)),
           [ timestamp |-> "now", rating |-> payload.rating, review |-> payload.review,
             ai_response |-> payload.ai_response ])

InitAdm ==
    /\ loaded = FALSE
    /\ local_file \in Files
    /\ run = NoRun

Ran(button, out, served, op, op_read, op_wrote) ==
    [ button |-> button, list |-> out, list_local |-> Falls(out, served), op |-> op,
      op_read |-> op_read, op_wrote |-> op_wrote, records |-> Listed(out, served) ]

\* lines 67-68, then the listing of lines 77-87
ClickLoad ==
    /\ loaded' = TRUE
    /\ \E out \in Outcomes, served \in ServerLists :
          run' = Ran("Load Reviews", out, served, "none", FALSE, FALSE)
    /\ UNCHANGED <<genVars, secVars, local_file>>

\* a rerun with no button pressed (a widget was edited)
Rerun ==
    /\ IF loaded
       THEN \E out \in Outcomes, served \in ServerLists :
               run' = Ran("none", out, served, "none", FALSE, FALSE)
       ELSE run' = NoRun
    /\ UNCHANGED <<genVars, secVars, loaded, local_file>>

\* lines 102-117: the button was shown by the last rerun; the listing runs
\* again, and the update is tried on the API first
ClickUpdate ==
    /\ loaded
    /\ run.records # <<>>
    /\ \E out \in Outcomes, served \in ServerLists, op \in Outcomes, payload \in Payloads :
          LET records == Listed(out, served)
          IN  IF records = <<>>
              THEN /\ run' = Ran("Update Review", out, served, "none", FALSE, FALSE)
                   /\ local_file' = local_file
              ELSE \E k \in 1..Len(records) :
                      IF op = "ok"
                      THEN /\ run' = Ran("Update Review", out, served, op, FALSE, FALSE)
                           /\ local_file' = local_file
                      ELSE /\ Len(UpdatedRows(records, records[k].id, payload)) <= MaxRows
                           /\ run' = Ran("Update Review", out, served, op, FALSE, TRUE)
                           /\ local_file' = write_local(UpdatedRows(records, records[k].id, payload))
    /\ UNCHANGED <<genVars, secVars, loaded>>

\* lines 120-131; a position past the frame raises IndexError, which line 130
\* reports, and nothing is written
ClickDelete ==
    /\ loaded
    /\ run.records # <<>>
    /\ \E out \in Outcomes, served \in ServerLists, op \in Outcomes :
          LET records == Listed(out, served)
          IN  IF records = <<>>
              THEN /\ run' = Ran("Delete Review", out, served, "none", FALSE, FALSE)
                   /\ local_file' = local_file
              ELSE \E k \in 1..Len(records) :
                      IF op = "ok" \/ records[k].id >= Len(records)
                      THEN /\ run' = Ran("Delete Review", out, served, op, FALSE, FALSE)
                           /\ local_file' = local_file
                      ELSE /\ run' = Ran("Delete Review", out, served, op, FALSE, TRUE)
                           /\ local_file' = write_local(DeletedRows(records, records[k].id))
    /\ UNCHANGED <<genVars, secVars, loaded>>

\* lines 140-159
ClickAdd ==
    /\ loaded
    /\ \E out \in Outcomes, served \in ServerLists, op \in Outcomes, payload \in Payloads :
          IF op = "ok"
          THEN /\ run' = Ran("Add Review", out, served, op, FALSE, FALSE)
               /\ local_file' = local_file
          ELSE /\ Len(AddedRows(payload)) <= MaxRows
               /\ run' = Ran("Add Review", out, served, op, TRUE, TRUE)
               /\ local_file' = write_local(AddedRows(payload))
    /\ UNCHANGED <<genVars, secVars, loaded>>

NextAdm ==
    \/ ClickLoad
    \/ Rerun
    \/ ClickUpdate
    \/ ClickDelete
    \/ ClickAdd

InitAdmin == IdleGen /\ IdleSec /\ InitAdm

SpecAdmin == InitAdmin /\ [][NextAdm]_vars

\* C10: list, add, update and delete read or write the local CSV file only
\* when the service is unreachable for that request; when it answers, with an
\* empty list or an error status too, the file is neither read nor changed.
C10_LocalOnlyWhenUnreachable ==
    /\ run.list_local => run.list = "unreachable"
    /\ (run.op_read \/ run.op_wrote) => run.op = "unreachable"

====
